---- MODULE Spec2Model ----
(***************************************************************************)
(* GumbelNACLayer (stable_nalu/layer/gumbel_nac.py) as a state machine.    *)
(*                                                                         *)
(* Encoding of floating-point tensors.  A scalar is a reduced fraction     *)
(* <<num, den>> with den > 0, or NaN == <<0, 0>>.  Quantities that live in *)
(* the log domain are held in units of ln 2: a logit <<k, 1>> stands for   *)
(* k * ln 2, and a noise element <<j, 1>> of U stands for the uniform      *)
(* value u whose Gumbel transform g = -log(-log(u)) is j * ln 2.  With     *)
(* that choice exp() of every logit and of every noise term is the exact   *)
(* integer power 2^k, and softmax / log_softmax are exact rationals.       *)
(* The result of log_softmax is held as the probabilities pi = exp(log_pi).*)
(* A tensor allocated by torch.Tensor(...) and never written holds         *)
(* unspecified memory: it is Uninit until it is first read, and the read   *)
(* fixes its contents to one of the garbage outcomes (which stay in        *)
(* memory from then on).                                                   *)
(***************************************************************************)
EXTENDS Integers, Sequences, FiniteSets, TLC

VARIABLES
    in_features,              \* self.in_features
    out_features,             \* self.out_features
    sample_each_observation,  \* self.sample_each_observation
    tau,                      \* self.tau, a fraction <<1, t>>
    W_hat,                    \* self.W_hat   [o][i] -> <<l1, l2>>, or Uninit
    W_hat_k,                  \* self.W_hat_k [o][i] -> <<l3>>, or Uninit
    U,                        \* storage of self.U: a sequence of slices
    U_shape,                  \* self.U.size()
    U_drawn,                  \* history: leading slices of U written by uniform_
    was_reset,                \* history: reset_parameters has been called
    op,                       \* history: the last operation that completed
    ret,                      \* what the last operation returned and observed
    pc,                       \* per thread: position inside forward
    call,                     \* per thread: arguments of the running forward
    stale                     \* history, per thread: U was resized by another
                              \* thread since this thread's own resize

vars == <<in_features, out_features, sample_each_observation, tau, W_hat,
          W_hat_k, U, U_shape, U_drawn, was_reset, op, ret, pc, call, stale>>

layer == <<in_features, out_features, sample_each_observation>>
threads == <<pc, call, stale>>

(***************************************************************************)
(* Bounds of the model.                                                    *)
(***************************************************************************)
MaxBatch == 2
MaxHalves == 3
FeatureDims == {<<2, 1>>}   \* <<in_features, out_features>>
LogitVals == {0, 1}
NoiseDraws == {<<1, 0, 0>>, <<0, 1, 0>>}   \* noise triples of one weight
InputVals == {1}
TauVals == {<<1, 1>>, <<1, 2>>}
Threads == {1, 2}

(***************************************************************************)
(* Scalars.                                                                *)
(***************************************************************************)
NaN == <<0, 0>>
Num(k) == <<k, 1>>
IsNaN(x) == x[2] = 0
Uninit == <<>>

Abs(n) == IF n < 0 THEN -n ELSE n

RECURSIVE GCD(_, _)
GCD(a, b) == IF b = 0 THEN a ELSE GCD(b, a % b)

NormBy(n, d, g) ==
    IF d < 0 THEN <<(-n) \div g, (-d) \div g>> ELSE <<n \div g, d \div g>>

\* the fraction n / d in lowest terms
Norm(n, d) == IF d = 0 THEN NaN ELSE NormBy(n, d, GCD(Abs(n), Abs(d)))

Add(a, b) ==
    IF IsNaN(a) \/ IsNaN(b) THEN NaN
    ELSE Norm(a[1] * b[2] + b[1] * a[2], a[2] * b[2])

Mul(a, b) ==
    IF IsNaN(a) \/ IsNaN(b) THEN NaN
    ELSE Norm(a[1] * b[1], a[2] * b[2])

Div(a, b) ==
    IF IsNaN(a) \/ IsNaN(b) THEN NaN
    ELSE Norm(a[1] * b[2], a[2] * b[1])

PowFrac(a, t) == IF IsNaN(a) THEN NaN ELSE <<a[1] ^ t, a[2] ^ t>>

Leq(a, b) == ~IsNaN(a) /\ ~IsNaN(b) /\ a[1] * b[2] <= b[1] * a[2]
Lt(a, b) == ~IsNaN(a) /\ ~IsNaN(b) /\ a[1] * b[2] < b[1] * a[2]

Sum3(v) == Add(Add(v[1], v[2]), v[3])

Min2(a, b) == IF a < b THEN a ELSE b
Min3(a, b, c) == Min2(Min2(a, b), c)

\* a / s, b / s, c / s
Ratio3(a, b, c, s) == <<Norm(a, s), Norm(b, s), Norm(c, s)>>

\* the three numbers divided by their sum
Normalize3(a, b, c) == Ratio3(a, b, c, a + b + c)

(***************************************************************************)
(* Tensors.  A weight position is <<o, i>>; a tensor over positions is a   *)
(* function [o][i]; the last dimension (the 3 outcomes) is a tuple.        *)
(***************************************************************************)
Outs == 1..out_features
Ins == 1..in_features

Fill(v) == [o \in Outs |-> [i \in Ins |-> v]]

SwappedTargets == <<Num(1), Num(0), Num(-1)>>

WideTargets == <<Num(2), Num(-1), Num(0)>>

\* self.register_buffer('target_weights', torch.tensor([1, -1, 0]))
target_weights == <<Num(1), Num(-1), Num(0)>>

\* torch.cat((self.W_hat, self.W_hat_k), dim=-1)
Cat(Wh, Wk) == [o \in Outs |-> [i \in Ins |-> Wh[o][i] \o Wk[o][i]]]

\* 2^(k1 - m), 2^(k2 - m), 2^(k3 - m) divided by their sum
Softmax2(k1, k2, k3, m) == Normalize3(2 ^ (k1 - m), 2 ^ (k2 - m), 2 ^ (k3 - m))

\* torch.nn.functional.log_softmax(w, dim=-1) of one logit triple, held as
\* the probabilities exp(log_pi[c]) = 2^k[c] / (2^k[1] + 2^k[2] + 2^k[3]).
LogSoftmax(w) ==
    IF \E c \in 1..3 : IsNaN(w[c]) THEN <<NaN, NaN, NaN>>
    ELSE Softmax2(w[1][1], w[2][1], w[3][1], Min3(w[1][1], w[2][1], w[3][1]))

\* exp(g) for g = -log(-log(u)): 2^j for the noise element <<j, 1>>, NaN for
\* an element outside the open unit interval.
ExpGumbel(u) == IF IsNaN(u) THEN NaN ELSE Num(2 ^ u[1])

\* 1 / tau for tau = <<1, t>>
InvTau(t) == t[2] \div t[1]

\* exp((log_pi[c] + g[c]) / tau) = (pi[c] * exp(g[c])) ^ (1 / tau)
ExpLogits(u, pi, k) ==
    [c \in 1..3 |-> PowFrac(Mul(pi[c], ExpGumbel(u[c])), k)]

\* r[c] / (r[1] + r[2] + r[3]), over the common denominator of the r[c]
Quotients(r) ==
    Normalize3(r[1][1] * r[2][2] * r[3][2],
               r[1][2] * r[2][1] * r[3][2],
               r[1][2] * r[2][2] * r[3][1])

\* sample_gumbel_softmax of one weight: softmax((log_pi + g) / tau)
SampleGumbelSoftmax(u, pi, t) ==
    IF \E c \in 1..3 : IsNaN(u[c]) \/ IsNaN(pi[c]) THEN <<NaN, NaN, NaN>>
    ELSE Quotients(ExpLogits(u, pi, InvTau(t)))

\* y @ self.target_weights for one weight
Reduce(y) == Sum3([c \in 1..3 |-> Mul(y[c], target_weights[c])])

RECURSIVE DotTo(_, _, _)
DotTo(w, x, n) ==
    IF n = 0 THEN Num(0) ELSE Add(DotTo(w, x, n - 1), Mul(w[n], x[n]))

\* one output entry: sum over the in_features of w[i] * x[i]
Dot(w, x) == DotTo(w, x, Len(x))

\* torch.nn.functional.linear(input, W, None): every row b by the one W
Linear(input, W) ==
    [b \in 1..Len(input) |-> [o \in Outs |-> Dot(W[o], input[b])]]

\* batch_linear(input, W, None): row b by W[b]
BatchLinear(input, W) ==
    [b \in 1..Len(input) |-> [o \in Outs |-> Dot(W[b][o], input[b])]]

ShapeOf(input) == <<Len(input), Len(input[1])>>
DropLast(s) == SubSeq(s, 1, Len(s) - 1)


(***************************************************************************)
(* Inputs and the outcomes of drawing and of reading unwritten memory.     *)
(***************************************************************************)
\* input tensors of shape (n, in_features) whose rows all differ
Batch(n, v) == [b \in 1..n |-> [i \in Ins |-> Num(v + b + i - 2)]]
Inputs == {Batch(n, v) : n \in 1..MaxBatch, v \in InputVals}

Triple(d) == <<Num(d[1]), Num(d[2]), Num(d[3])>>

\* what uniform_ can write into one slice of U
NoiseSlices == {Fill(Triple(d)) : d \in NoiseDraws}

\* what one never-written slice of U can hold when it is read
GarbageSlices == {Fill(<<NaN, NaN, NaN>>)} \cup
                 {Fill(Triple(d)) : d \in {CHOOSE e \in NoiseDraws : TRUE}}

\* what the never-written W_hat and W_hat_k can hold when they are read
GarbageScalars == {NaN, Num(1)}

\* the values an optimizer step can leave in W_hat: the logit pair <<a, b>>
\* at the even positions and <<b, a>> at the odd ones
TrainedLogits ==
    {[o \in Outs |-> [i \in Ins |->
        IF (o + i) % 2 = 0 THEN <<Num(a), Num(b)>> ELSE <<Num(b), Num(a)>>]] :
     a \in LogitVals, b \in LogitVals}

NoRet == [kind |-> "none"]
NoCall == [input |-> <<>>, reuse |-> FALSE, logits |-> <<>>, pi |-> <<>>]

Max(a, b) == IF a < b THEN b ELSE a

(***************************************************************************)
(* __init__ (lines 16-39): tau is set to 1; W_hat, W_hat_k and U are       *)
(* allocated by torch.Tensor(...) and not written.                         *)
(***************************************************************************)
Init ==
    /\ \E d \in FeatureDims : in_features = d[1] /\ out_features = d[2]
    /\ sample_each_observation \in BOOLEAN
    /\ tau = <<1, 1>>
    /\ W_hat = Uninit
    /\ W_hat_k = Uninit
    /\ U = <<Uninit>>
    /\ U_shape = <<out_features, in_features, 3>>
    /\ U_drawn = 0
    /\ was_reset = FALSE
    /\ op = "__init__"
    /\ ret = NoRet
    /\ pc = [t \in Threads |-> "idle"]
    /\ call = [t \in Threads |-> NoCall]
    /\ stale = [t \in Threads |-> FALSE]

Idle == \A t \in Threads : pc[t] = "idle"

(***************************************************************************)
(* reset_parameters (lines 41-45)                                          *)
(***************************************************************************)
OneLogits == Fill(<<Num(1), Num(0)>>)

\* torch.nn.init.constant_(self.W_hat, 0)
ZeroLogits == Fill(<<Num(0), Num(0)>>)

KeptK == W_hat_k

\* torch.nn.init.constant_(self.W_hat_k, 0)
ZeroK == Fill(<<Num(0)>>)

ResetParameters ==
    /\ Idle
    /\ W_hat' = ZeroLogits
    /\ W_hat_k' = ZeroK
    /\ tau' = <<1, 1>>
    /\ was_reset' = TRUE
    /\ op' = "reset_parameters"
    /\ ret' = NoRet
    /\ UNCHANGED <<layer, U, U_shape, U_drawn, threads>>

(***************************************************************************)
(* The optimizer's step on the one trainable tensor, W_hat (line 36), and  *)
(* the annealing of tau (line 24), both done by the training loop.         *)
(***************************************************************************)
GradientUpdate(t) ==
    /\ Idle
    /\ W_hat # Uninit
    /\ \A o \in Outs, i \in Ins, c \in 1..2 : ~IsNaN(W_hat[o][i][c])
    /\ t # W_hat
    /\ W_hat' = t
    /\ op' = "step"
    /\ ret' = NoRet
    /\ UNCHANGED <<layer, tau, W_hat_k, U, U_shape, U_drawn, was_reset, threads>>

SetTau(t) ==
    /\ Idle
    /\ t # tau
    /\ tau' = t
    /\ op' = "set_tau"
    /\ ret' = NoRet
    /\ UNCHANGED <<layer, W_hat, W_hat_k, U, U_shape, U_drawn, was_reset, threads>>

(***************************************************************************)
(* forward (lines 47-75)                                                   *)
(***************************************************************************)
\* The values a read of tensor T yields: its contents, or garbage when it
\* was never written.
ReadLogits(T, width) ==
    IF T = Uninit
    THEN {Fill([c \in 1..width |-> g]) : g \in GarbageScalars}
    ELSE {T}

\* log_pi = log_softmax(W_hat_full, dim=-1)
LogProbabilities(W_hat_full) ==
    [o \in Outs |-> [i \in Ins |-> LogSoftmax(W_hat_full[o][i])]]

\* The storage after self.U.resize_(obs, out, in, 3): it grows when it is too
\* small (the new memory is not written) and is kept otherwise.
Resize(store, obs) ==
    [b \in 1..Max(Len(store), obs) |-> IF b <= Len(store) THEN store[b] ELSE Uninit]

KeptShape(shape, obs) == shape

StaleShape(shape, obs) ==
    IF Len(shape) = 4 THEN shape ELSE <<obs, out_features, in_features, 3>>

\* self.U.size() after self.U.resize_(obs, out, in, 3)
ResizedShape(shape, obs) == <<obs, out_features, in_features, 3>>

\* the slices of U the sampler takes its noise from
Slices(shape) == IF Len(shape) = 4 THEN shape[1] ELSE 1

ReuseDropped(reuse) == FALSE

\* reuse=reuse in the two calls of sample_gumbel_softmax
ReuseArg(reuse) == reuse

\* The storages after the sampler took its noise from the first n slices:
\* freshly drawn (reuse = FALSE) or as they are in memory (reuse = TRUE).
NoiseOutcomes(store, n, reuse) ==
    IF reuse
    THEN {[b \in 1..Len(store) |-> IF b <= n THEN f[b] ELSE store[b]] :
             f \in {g \in [1..n -> GarbageSlices \cup {store[b] : b \in 1..n}] :
                      \A b \in 1..n : IF store[b] = Uninit
                                      THEN g[b] \in GarbageSlices
                                      ELSE g[b] = store[b]}}
    ELSE {[b \in 1..Len(store) |-> IF b <= n THEN f[b] ELSE store[b]] :
             f \in [1..n -> NoiseSlices]}

SharedNoise(Un, b) == Un[1]

\* the noise that the sample of batch element b is made from: U and the
\* expanded log_pi are combined along the batch dimension
NoiseOf(Un, b) == Un[b]

\* sample_gumbel_softmax(self.U, log_pi.expand(obs, -1, -1, -1), ...) and
\* sample_gumbel_softmax(self.U, log_pi, ...): one sample per slice
Samples(Un, pi, n) ==
    [b \in 1..n |-> [o \in Outs |-> [i \in Ins |->
        SampleGumbelSoftmax(NoiseOf(Un, b)[o][i], pi[o][i], tau)]]]

\* W = y @ self.target_weights
Weights(yb, n) ==
    [b \in 1..n |-> [o \in Outs |-> [i \in Ins |-> Reduce(yb[b][o][i])]]]

\* U is shaped for this call: with sample_each_observation its batch
\* dimension is the input's
Matches(input, shape) ==
    IF sample_each_observation
    THEN Len(shape) = 4 /\ shape[1] = Len(input)
    ELSE Len(shape) = 3

\* Lines 63-75, with the noise buffer as it is at the sampling step.  Every
\* intermediate tensor of the code is bound once, in the code's order.  When
\* U is not shaped for the call the sampler still takes its noise, and what
\* the tensor operations make of the shapes is left open ("shape_mismatch").
Sampling(input, reuse, store, shape, W_hat_full, pi, interleaved) ==
    \E n \in {Slices(shape)} :
    \E Un \in NoiseOutcomes(store, n, ReuseArg(reuse)) :
        /\ U' = Un
        /\ U_drawn' = IF ReuseArg(reuse) THEN U_drawn ELSE Max(U_drawn, n)
        /\ IF Matches(input, shape)
           THEN
             \E yb \in {Samples(Un, pi, n)} :
             \E Wb \in {Weights(yb, n)} :
             \E y \in {IF sample_each_observation THEN yb ELSE yb[1]},
                W \in {IF sample_each_observation THEN Wb ELSE Wb[1]},
                W_shape \in {DropLast(shape)} :
             \E out \in {IF sample_each_observation
                         THEN BatchLinear(input, W) ELSE Linear(input, W)},
                out_shape \in {IF sample_each_observation
                               THEN <<ShapeOf(input)[1], W_shape[2]>>
                               ELSE <<ShapeOf(input)[1], W_shape[1]>>} :
                ret' = [kind |-> "forward", input |-> input, reuse |-> reuse,
                        logits |-> W_hat_full, pi |-> pi, tau |-> tau,
                        U_shape |-> shape, noise |-> SubSeq(Un, 1, n),
                        drawn_before |-> U_drawn,
                        y |-> y, W |-> W, W_shape |-> W_shape,
                        out |-> out, out_shape |-> out_shape,
                        after_reset |-> (op = "reset_parameters"),
                        prior |-> IF /\ ret.kind = "forward"
                                     /\ ret.reuse /\ reuse
                                     /\ ret.input = input
                                  THEN {ret.out} ELSE {}]
           ELSE
                ret' = [kind |-> "shape_mismatch", input |-> input,
                        U_shape |-> shape, interleaved |-> interleaved]

\* One whole call, nothing else running on the instance.
Forward(input, reuse) ==
    /\ Idle
    /\ \E Wh \in ReadLogits(W_hat, 2), Wk \in ReadLogits(W_hat_k, 1) :
       \E W_hat_full \in {Cat(Wh, Wk)} :
       \E pi \in {LogProbabilities(W_hat_full)} :
         /\ W_hat' = Wh
         /\ W_hat_k' = Wk
         /\ \/ /\ sample_each_observation
               /\ U_shape' = ResizedShape(U_shape, Len(input))
               /\ Sampling(input, reuse, Resize(U, Len(input)), U_shape',
                           W_hat_full, pi, FALSE)
            \/ /\ ~sample_each_observation
               /\ U_shape' = U_shape
               /\ Sampling(input, reuse, U, U_shape, W_hat_full, pi, FALSE)
    /\ op' = "forward"
    /\ UNCHANGED <<layer, tau, was_reset, threads>>

Next ==
    \/ ResetParameters
    \/ \E input \in Inputs, reuse \in BOOLEAN : Forward(input, reuse)
    \/ \E t \in TrainedLogits : GradientUpdate(t)
    \/ \E t \in TauVals : SetTau(t)

Spec == Init /\ [][Next]_vars

(***************************************************************************)
(* forward with sample_each_observation = True run by several threads on   *)
(* one instance.  A call is two steps: lines 49-60 (read the logits, take  *)
(* log_pi, resize U) and lines 63-67 (sample, reduce, multiply).           *)
(***************************************************************************)
ThreadBegin(t, input, reuse) ==
    /\ sample_each_observation
    /\ pc[t] = "idle"
    /\ \E Wh \in ReadLogits(W_hat, 2), Wk \in ReadLogits(W_hat_k, 1) :
       \E W_hat_full \in {Cat(Wh, Wk)} :
         /\ W_hat' = Wh
         /\ W_hat_k' = Wk
         /\ call' = [call EXCEPT ![t] =
                        [input |-> input, reuse |-> reuse, logits |-> W_hat_full,
                         pi |-> LogProbabilities(W_hat_full)]]
    /\ U' = Resize(U, Len(input))
    /\ U_shape' = ResizedShape(U_shape, Len(input))
    /\ pc' = [pc EXCEPT ![t] = "resized"]
    /\ stale' = [u \in Threads |->
                    IF u = t THEN FALSE ELSE stale[u] \/ pc[u] = "resized"]
    /\ UNCHANGED <<layer, tau, U_drawn, was_reset, op, ret>>

\* Thread t is at its sampling step and U is shaped for another batch size.
Mismatch(t) == pc[t] = "resized" /\ ~Matches(call[t].input, U_shape)

ThreadSample(t) ==
    /\ pc[t] = "resized"
    /\ Sampling(call[t].input, call[t].reuse, U, U_shape,
                call[t].logits, call[t].pi, stale[t])
    /\ pc' = [pc EXCEPT ![t] = "idle"]
    /\ call' = [call EXCEPT ![t] = NoCall]
    /\ stale' = [stale EXCEPT ![t] = FALSE]
    /\ op' = "forward"
    /\ UNCHANGED <<layer, tau, W_hat, W_hat_k, U_shape, was_reset>>

\* one input tensor of every batch size
ThreadInputs == {Batch(n, 1) : n \in 1..MaxBatch}

NextThreads ==
    \/ \E t \in Threads, input \in ThreadInputs, reuse \in BOOLEAN :
          ThreadBegin(t, input, reuse)
    \/ \E t \in Threads : ThreadSample(t)

\* The layer after __init__ and reset_parameters, sampling per observation.
InitThreads ==
    /\ \E d \in FeatureDims : in_features = d[1] /\ out_features = d[2]
    /\ sample_each_observation = TRUE
    /\ tau = <<1, 1>>
    /\ W_hat = ZeroLogits
    /\ W_hat_k = ZeroK
    /\ U = <<Uninit>>
    /\ U_shape = <<out_features, in_features, 3>>
    /\ U_drawn = 0
    /\ was_reset = TRUE
    /\ op = "reset_parameters"
    /\ ret = NoRet
    /\ pc = [t \in Threads |-> "idle"]
    /\ call = [t \in Threads |-> NoCall]
    /\ stale = [t \in Threads |-> FALSE]

SpecThreads == InitThreads /\ [][NextThreads]_vars

(***************************************************************************)
(* The reduction y @ target_weights on its own: a sample vector is drawn   *)
(* from the vectors with entries 0, 1/2, 1, ... and reduced.               *)
(***************************************************************************)
SampleVectors ==
    {<<Norm(a, 2), Norm(b, 2), Norm(c, 2)>> :
        a \in 0..MaxHalves, b \in 0..MaxHalves, c \in 0..MaxHalves}

DrawSample(v) ==
    /\ ret.kind = "none"
    /\ ret' = [kind |-> "sample", y |-> v]
    /\ UNCHANGED <<layer, tau, W_hat, W_hat_k, U, U_shape, U_drawn, was_reset,
                   op, threads>>

ReduceSample ==
    /\ ret.kind = "sample"
    /\ ret' = [kind |-> "reduced", y |-> ret.y, W |-> Reduce(ret.y)]
    /\ UNCHANGED <<layer, tau, W_hat, W_hat_k, U, U_shape, U_drawn, was_reset,
                   op, threads>>

NextReduce ==
    \/ \E v \in SampleVectors : DrawSample(v)
    \/ ReduceSample

SpecReduce == Init /\ [][NextReduce]_vars


(***************************************************************************)
(* Properties.                                                             *)
(***************************************************************************)
IsForward == ret.kind = "forward"

\* the <<sample, weight>> pairs of all weight positions of the last forward
SampledPairs ==
    IF sample_each_observation
    THEN {<<ret.y[b][o][i], ret.W[b][o][i]>> :
             b \in 1..Len(ret.input), o \in Outs, i \in Ins}
    ELSE {<<ret.y[o][i], ret.W[o][i]>> : o \in Outs, i \in Ins}

\* the noise of the last forward was written by uniform_ in that call
\* (reuse=False) or in an earlier one
NoiseWasDrawn == ~ret.reuse \/ Len(ret.noise) <= ret.drawn_before

\* entries >= 0 that sum to 1
ValidProbability(y) ==
    /\ \A c \in 1..3 : Leq(Num(0), y[c])
    /\ Sum3(y) = Num(1)

\* C1: a forward(input, reuse=True) that directly follows a
\* forward(input, reuse=True) with the same input (so with the same logits,
\* tau and noise buffer) returns the output the first one returned, in both
\* sampling modes.
C1_DeterminismUnderReuse ==
    IsForward => \A p \in ret.prior : p = ret.out

C1_Witness ==
    /\ IsForward
    /\ sample_each_observation
    /\ ret.prior # {}
    /\ U_drawn >= Len(ret.input)
    /\ \A b \in 1..Len(ret.input), o \in Outs : ~IsNaN(ret.out[b][o])

\* C2 as claimed: from construction onward every entry of W_hat_k that has a
\* value is 0 and every logit triple assembled by forward ends in 0.
C2_ThirdLogitAlwaysZero ==
    /\ W_hat_k # Uninit =>
          \A o \in Outs, i \in Ins : W_hat_k[o][i] = <<Num(0)>>
    /\ IsForward =>
          \A o \in Outs, i \in Ins : ret.logits[o][i][3] = Num(0)

\* C2 as amended: once reset_parameters has been called, every entry of
\* W_hat_k is 0 and every logit triple assembled by forward ends in 0,
\* whatever resets, forward calls, gradient updates and changes of tau follow.
C2_ThirdLogitZeroAfterReset ==
    was_reset =>
        /\ W_hat_k # Uninit
        /\ \A o \in Outs, i \in Ins : W_hat_k[o][i] = <<Num(0)>>
        /\ IsForward =>
              \A o \in Outs, i \in Ins : ret.logits[o][i][3] = Num(0)

C2_Witness ==
    /\ was_reset
    /\ IsForward
    /\ ~ret.after_reset
    /\ \E o \in Outs, i \in Ins : W_hat[o][i] # <<Num(0), Num(0)>>

\* C3: right after reset_parameters every entry of W_hat and of W_hat_k is 0
\* and tau is 1; the forward that follows it assembles the logit triple
\* (0, 0, 0) at every weight, and its distribution before sampling is
\* (1/3, 1/3, 1/3).
C3_ResetGivesUniform ==
    /\ op = "reset_parameters" =>
          /\ W_hat # Uninit /\ W_hat_k # Uninit
          /\ \A o \in Outs, i \in Ins :
                W_hat[o][i] = <<Num(0), Num(0)>> /\ W_hat_k[o][i] = <<Num(0)>>
          /\ tau = <<1, 1>>
    /\ (IsForward /\ ret.after_reset) =>
          \A o \in Outs, i \in Ins :
             /\ ret.logits[o][i] = <<Num(0), Num(0), Num(0)>>
             /\ ret.pi[o][i] = <<<<1, 3>>, <<1, 3>>, <<1, 3>>>>

C3_Witness ==
    /\ IsForward
    /\ ret.after_reset
    /\ ret.tau = <<1, 1>>
    /\ \A o \in Outs, i \in Ins : ret.pi[o][i][3] = <<1, 3>>

\* C4: forward on an input of shape (batch, in_features) returns a tensor of
\* shape (batch, out_features); with sample_each_observation the noise buffer
\* it samples from has shape (batch, out_features, in_features, 3) for its
\* own batch, whatever the batch sizes of the calls before; without it U
\* keeps the shape (out_features, in_features, 3).
C4_ShapeContract ==
    /\ ret.kind # "shape_mismatch"
    /\ ~sample_each_observation => U_shape = <<out_features, in_features, 3>>
    /\ IsForward =>
          /\ ret.out_shape = <<Len(ret.input), out_features>>
          /\ DOMAIN ret.out = 1..Len(ret.input)
          /\ \A b \in 1..Len(ret.input) : DOMAIN ret.out[b] = 1..out_features
          /\ sample_each_observation =>
                /\ ret.U_shape = <<Len(ret.input), out_features, in_features, 3>>
                /\ Len(ret.noise) = Len(ret.input)

C4_Witness ==
    /\ IsForward
    /\ sample_each_observation
    /\ Len(ret.input) = 1
    /\ Len(U) = MaxBatch
    /\ ret.U_shape = <<1, out_features, in_features, 3>>

\* C5: the reduction of the one-hot samples (1,0,0), (0,1,0) and (0,0,1) is
\* exactly 1, -1 and 0.
C5_OneHotReduction ==
    ret.kind = "reduced" =>
        /\ ret.y = <<Num(1), Num(0), Num(0)>> => ret.W = Num(1)
        /\ ret.y = <<Num(0), Num(1), Num(0)>> => ret.W = Num(-1)
        /\ ret.y = <<Num(0), Num(0), Num(1)>> => ret.W = Num(0)

C5_Witness ==
    /\ ret.kind = "reduced"
    /\ ret.y = <<Num(0), Num(1), Num(0)>>
    /\ ret.W = Num(-1)

\* C6: at every weight position whose sample is a valid probability vector
\* (entries >= 0, summing to 1) the weight that forward materializes lies in
\* [-1, 1]; and when the logits were set by reset_parameters and the
\* optimizer and the noise was drawn, every entry of W lies in [-1, 1].
C6_BoundedWeights ==
    IsForward =>
        /\ \A yw \in SampledPairs :
              ValidProbability(yw[1]) =>
                 Leq(Num(-1), yw[2]) /\ Leq(yw[2], Num(1))
        /\ (was_reset /\ NoiseWasDrawn) =>
              \A yw \in SampledPairs :
                 Leq(Num(-1), yw[2]) /\ Leq(yw[2], Num(1))

C6_Witness ==
    /\ IsForward
    /\ \E yw \in SampledPairs : ValidProbability(yw[1]) /\ Lt(Num(0), yw[2])
    /\ \E yw \in SampledPairs : ValidProbability(yw[1]) /\ Lt(yw[2], Num(0))

\* C7: with logits set by reset_parameters and the optimizer and tau > 0, the
\* sample forward obtains has, at every weight position, three entries in the
\* open interval (0, 1) that sum to 1.
C7_SampleInOpenSimplex ==
    (IsForward /\ was_reset) =>
        \A yw \in SampledPairs :
            /\ \A c \in 1..3 : Lt(Num(0), yw[1][c]) /\ Lt(yw[1][c], Num(1))
            /\ Sum3(yw[1]) = Num(1)

\* C8: a call reaches its sampling step with U shaped for another batch size
\* only if another call's resize fell between its own resize and its
\* sampling; calls that do not interleave never do.
C8_MismatchOnlyWhenInterleaved ==
    /\ \A t \in Threads : Mismatch(t) => stale[t]
    /\ ret.kind = "shape_mismatch" => ret.interleaved

C8_Witness ==
    /\ ret.kind = "shape_mismatch"
    /\ ret.interleaved
    /\ ret.U_shape[1] # Len(ret.input)

\* C9: without sample_each_observation one weight matrix W of shape
\* (out, in) is materialized and output[b] = W . input[b] for every row b;
\* with it one matrix W[b] per batch element is materialized from that
\* element's own slice of the noise, and output[b] = W[b] . input[b].  No
\* bias is added.
C9_SharedOrPerObservationWeights ==
    IsForward =>
        IF sample_each_observation
        THEN /\ ret.W_shape = <<Len(ret.input), out_features, in_features>>
             /\ \A b \in 1..Len(ret.input), o \in Outs :
                   /\ \A i \in Ins :
                         ret.W[b][o][i] =
                            Reduce(SampleGumbelSoftmax(ret.noise[b][o][i],
                                                       ret.pi[o][i], ret.tau))
                   /\ ret.out[b][o] = Dot(ret.W[b][o], ret.input[b])
        ELSE /\ ret.W_shape = <<out_features, in_features>>
             /\ \A o \in Outs, i \in Ins :
                   ret.W[o][i] =
                      Reduce(SampleGumbelSoftmax(ret.noise[1][o][i],
                                                 ret.pi[o][i], ret.tau))
             /\ \A b \in 1..Len(ret.input), o \in Outs :
                   ret.out[b][o] = Dot(ret.W[o], ret.input[b])

C9_Witness ==
    /\ IsForward
    /\ sample_each_observation
    /\ Len(ret.input) = 2
    /\ ret.noise[1] # ret.noise[2]
    /\ ret.W[1] # ret.W[2]
    /\ \A o \in Outs : ~IsNaN(ret.out[1][o]) /\ ~IsNaN(ret.out[2][o])

\* C10: every slice of U that a forward(..., reuse=True) samples from was
\* written by an earlier forward(..., reuse=False).
C10_ReusedNoiseWasDrawn ==
    (IsForward /\ ret.reuse) => Len(ret.noise) <= ret.drawn_before

====
